---- MODULE Spec2Model ----
(***************************************************************************)
(* State-machine model of the zamer_avito_system coordination fabric:      *)
(* the Store statements of worker/src/db.py, the slot loop of              *)
(* worker/src/main.py, the outcome table of worker/src/processor.py and    *)
(* the janitor of cleanup/cleanup.py.                                      *)
(*                                                                         *)
(* Every SQL statement is one atomic step.  The two lease statements       *)
(* (UPDATE ... WHERE id = (SELECT ... FOR UPDATE SKIP LOCKED)) are two     *)
(* steps: the sub-select that row-locks its candidate, and the update      *)
(* that commits; a row is row-locked in between.  Timestamps are kept as   *)
(* the time elapsed since NOW() was stored (saturating), which is all the  *)
(* janitor's comparisons read.  Time is counted in CLEANUP_INTERVALs: a    *)
(* statement takes none, browser work and idleness do.                     *)
(***************************************************************************)
EXTENDS Integers, FiniteSets, Sequences, TLC

\* ------------------------------------------------------------ configuration
\* Environment-configured values, scaled down to a clock of one
\* CLEANUP_INTERVAL per tick.
WORKERS_COUNT == 2
MAX_TASK_ATTEMPTS == 2
TASK_TIMEOUT == 1
PROXY_TIMEOUT == 1
WORKER_TIMEOUT == 1
HEARTBEAT_INTERVAL == 1
CLEANUP_INTERVAL == 1

\* ------------------------------------------------------------------- bounds
NumTasks == 1
NumProxies == 2
\* acquire_task puts no limit on attempts: the model stops leasing after
\* this many leases in all.
MaxLeases == 3
\* statements whose retries are spent, launches that fail and slots that
\* are killed, in all
MaxFaults == 1
\* slots of the deployment the progress properties are checked on
LiveWorkers == 1
\* the retry scenario: one slot, one task loaded with this max_attempts
RetryMaxAttempts == 3
\* the deployment the lease order is checked on
\* the timeouts an environment may set, in clock units
MaxTimeout == 2
\* passes of each retry loop (default 5)
DB_RETRY_ATTEMPTS == 3
OrderWorkers == 2
OrderTasks == 2
Uploads == 2

\* SQL NULL / Python None for identifiers, and for timestamps.
NULL == 0
NoTime == -1

BeatAgeCap == HEARTBEAT_INTERVAL + 1

VARIABLES
    tasks,          \* table tasks: task_id -> row
    proxies,        \* table proxies: proxy_id -> row
    workers,        \* table workers: worker_id -> row (present = row exists)
    results,        \* table results: item_id (= task_id) -> row
    pc,             \* each slot's position in worker_loop
    current_proxy,  \* worker_loop local: proxy held by the slot, or NULL
    page,           \* worker_loop local: the slot has a live driver
    task,           \* worker_loop local: the leased task dict
    result,         \* worker_loop local: the outcome of process_item
    sel,            \* row a lease statement in flight has row-locked, or NULL
    last_heartbeat, \* worker_loop local: time since the slot's last beat
    shutdown_event, \* worker process flag
    jpc,            \* janitor position: sleep, the four steps
    jtimer,         \* time the janitor has slept
    tasks_released, \* cleanup_cycle local: what release_stuck_tasks returned
    config,         \* cleanup.py's Config: the timeouts read from the environment
    store_call,     \* a Store operation followed through its retry loops
    faults          \* faults so far, by the side they struck

vars == <<tasks, proxies, workers, results, pc, current_proxy, page, task,
          result, sel, last_heartbeat, shutdown_event, jpc, jtimer,
          tasks_released, config, store_call, faults>>

dbvars == <<tasks, proxies, workers, results>>

jvars == <<jpc, jtimer, tasks_released, config>>

\* class Config of cleanup.py with the deployment's environment
Configured ==
    [TASK_TIMEOUT |-> TASK_TIMEOUT, PROXY_TIMEOUT |-> PROXY_TIMEOUT,
     WORKER_TIMEOUT |-> WORKER_TIMEOUT]

\* the ages past which the janitor's comparisons no longer change
TaskAgeCap == config.TASK_TIMEOUT + CLEANUP_INTERVAL + 1
ProxyAgeCap == config.PROXY_TIMEOUT + 1
WorkerAgeCap == config.WORKER_TIMEOUT + 1

\* the slots launched, the rows loaded
Slots == DOMAIN pc
Tasks == DOMAIN tasks
Proxies == DOMAIN proxies

NoTask == [task_id |-> NULL, attempts |-> 0]
NoResult == [status |-> "none", rotate_proxy |-> FALSE]
NoRow == [status |-> "none", worker_id |-> NULL, attempts |-> 0]

\* elapsed time of a stored timestamp after one more tick
Aged(a, cap) == IF a = NoTime THEN NoTime ELSE IF a < cap THEN a + 1 ELSE cap

\* ------------------------------------------------------------- row locks
\* A row is row-locked from the lease statement's sub-select to its commit.
TaskRowLocked(t) == \E s \in Slots : pc[s] = "acquire_task_update" /\ sel[s] = t

ProxyRowLocked(p) ==
    \E s \in Slots : pc[s] \in {"init_proxy_update", "rotate_proxy_update"} /\ sel[s] = p

\* ------------------------------------------------------ Store (worker/db.py)
\* Each operator is the effect of one statement on its table.

\* the sub-select of acquire_task with FOR UPDATE SKIP LOCKED left out
acquire_task_select_locked_too(T, locked) ==
    LET cand == {t \in DOMAIN T : T[t].status = "pending"}
    IN  {t \in cand : \A u \in cand : T[t].created_at <= T[u].created_at}

\* the sub-select of acquire_task with ORDER BY created_at left out
acquire_task_select_unordered(T, locked) ==
    {t \in DOMAIN T : T[t].status = "pending" /\ t \notin locked}

\* acquire_task, the sub-select: pending rows, not row-locked, first by
\* created_at.  ORDER BY names created_at alone, so equal created_at rows
\* come in any order.
acquire_task_select(T, locked) ==
    LET cand == {t \in DOMAIN T : T[t].status = "pending" /\ t \notin locked}
    IN  {t \in cand : \A u \in cand : T[t].created_at <= T[u].created_at}

\* acquire_task, the update of the selected row
acquire_task_update(T, t, w) ==
    [T EXCEPT ![t] = [@ EXCEPT !.status = "processing",
                               !.worker_id = w,
                               !.last_attempt_at = 0,
                               !.attempts = @ + 1]]

\* the sub-select of acquire_proxy with FOR UPDATE SKIP LOCKED left out
acquire_proxy_select_locked_too(P, locked) ==
    LET cand == {p \in DOMAIN P : P[p].status = "available"}
    IN  {p \in cand : \A q \in cand : P[p].uses_count <= P[q].uses_count}

\* the sub-select of acquire_proxy with ORDER BY uses_count left out
acquire_proxy_select_unordered(P, locked) ==
    {p \in DOMAIN P : P[p].status = "available" /\ p \notin locked}

\* acquire_proxy, the sub-select: available rows, not row-locked, first by
\* uses_count.
acquire_proxy_select(P, locked) ==
    LET cand == {p \in DOMAIN P : P[p].status = "available" /\ p \notin locked}
    IN  {p \in cand : \A q \in cand : P[p].uses_count <= P[q].uses_count}

\* acquire_proxy, the update of the selected row
acquire_proxy_update(P, p, w) ==
    [P EXCEPT ![p] = [@ EXCEPT !.status = "locked",
                               !.locked_by = w,
                               !.locked_at = 0,
                               !.uses_count = @ + 1]]

\* a release that counts the use once more
release_proxy_counting(P, p) ==
    [P EXCEPT ![p] = [@ EXCEPT !.status = "available",
                               !.locked_by = NULL,
                               !.locked_at = NoTime,
                               !.last_used_at = 0,
                               !.uses_count = @ + 1]]

\* release_proxy: UPDATE ... WHERE proxy=$1, whatever the row's status
release_proxy(P, p) ==
    [P EXCEPT ![p] = [@ EXCEPT !.status = "available",
                               !.locked_by = NULL,
                               !.locked_at = NoTime,
                               !.last_used_at = 0]]

\* mark_proxy_blocked: sets status and blocks_count only
mark_proxy_blocked(P, p) ==
    [P EXCEPT ![p] = [@ EXCEPT !.status = "blocked",
                               !.blocks_count = @ + 1]]

\* an insert that keeps the row it finds: ON CONFLICT (item_id) DO NOTHING
save_result_to_db_keep_first(R, item, row) ==
    IF R[item].status = "none" THEN [R EXCEPT ![item] = row] ELSE R

\* save_result_to_db: INSERT ... ON CONFLICT (item_id) DO UPDATE
save_result_to_db(R, item, row) == [R EXCEPT ![item] = row]

\* a completion that counts one more attempt
mark_task_completed_counting(T, t) ==
    [T EXCEPT ![t] = [@ EXCEPT !.status = "completed", !.completed_at = 0,
                               !.attempts = @ + 1]]

\* mark_task_completed: sets status and completed_at only
mark_task_completed(T, t) ==
    [T EXCEPT ![t] = [@ EXCEPT !.status = "completed", !.completed_at = 0]]

\* a release statement that fails the task whatever its attempts
increment_task_attempts_to_failed(T, t) ==
    [T EXCEPT ![t] = [@ EXCEPT !.status = "failed",
                               !.worker_id = NULL,
                               !.last_attempt_at = NoTime]]

\* a release statement that counts the attempt a second time
increment_task_attempts_counting(T, t) ==
    [T EXCEPT ![t] = [@ EXCEPT
        !.status = IF T[t].attempts >= T[t].max_attempts THEN "failed" ELSE "pending",
        !.worker_id = NULL,
        !.last_attempt_at = NoTime,
        !.attempts = @ + 1]]

\* a release statement that always puts the task back
increment_task_attempts_to_pending(T, t) ==
    [T EXCEPT ![t] = [@ EXCEPT !.status = "pending",
                               !.worker_id = NULL,
                               !.last_attempt_at = NoTime]]

\* increment_task_attempts: the release statement
increment_task_attempts(T, t) ==
    [T EXCEPT ![t] = [@ EXCEPT
        !.status = IF T[t].attempts >= T[t].max_attempts THEN "failed" ELSE "pending",
        !.worker_id = NULL,
        !.last_attempt_at = NoTime]]

\* increment_worker_stats: UPDATE workers ... WHERE worker_id=$1
increment_worker_stats(W, w, success) ==
    IF ~W[w].present THEN W
    ELSE IF success
         THEN [W EXCEPT ![w] = [@ EXCEPT !.tasks_processed = @ + 1]]
         ELSE [W EXCEPT ![w] = [@ EXCEPT !.tasks_failed = @ + 1]]

\* a registration that leaves an existing row alone: ON CONFLICT DO NOTHING
update_heartbeat_insert_only(W, w) ==
    IF W[w].present THEN W
    ELSE [W EXCEPT ![w] = [present |-> TRUE, status |-> "active",
                           last_heartbeat |-> 0,
                           tasks_processed |-> 0, tasks_failed |-> 0]]

\* update_heartbeat: INSERT INTO workers (worker_id) ... ON CONFLICT DO UPDATE
update_heartbeat(W, w) ==
    IF W[w].present
    THEN [W EXCEPT ![w] = [@ EXCEPT !.last_heartbeat = 0, !.status = "active"]]
    ELSE [W EXCEPT ![w] = [present |-> TRUE, status |-> "active",
                           last_heartbeat |-> 0,
                           tasks_processed |-> 0, tasks_failed |-> 0]]

\* ------------------------------------------- outcome table (processor.py)
PROXY_BLOCK_403 == "proxy_block_403"
PROXY_AUTH_407 == "proxy_auth_407"
PROXY_BLOCK_429 == "proxy_block_429"
CAPTCHA == "captcha"
REMOVED == "removed"
SELLER_PROFILE == "seller_profile"
CATALOG == "catalog"
CARD_FOUND == "card_found"
CONTINUE_BUTTON == "continue_button"

PRIORITY_ORDER == <<PROXY_BLOCK_403, PROXY_AUTH_407, PROXY_BLOCK_429, CAPTCHA, REMOVED,
                    SELLER_PROFILE, CATALOG, CARD_FOUND, CONTINUE_BUTTON>>

\* what detect_page_state can give: a label of the list, a label outside
\* it, or DetectionError
DetectorOutputs ==
    {PRIORITY_ORDER[i] : i \in DOMAIN PRIORITY_ORDER} \cup {"not_detected", "DetectionError"}

\* what the collaborators do during one process_item call
ProcessInputs ==
    [goto_ok : BOOLEAN, state : DetectorOutputs, solved : BOOLEAN,
     new_state : DetectorOutputs, parse_ok : BOOLEAN]

Outcome(status, reason, rotate) ==
    [raised |-> FALSE, status |-> status, failure_reason |-> reason, rotate_proxy |-> rotate]

\* an exception that process_item does not catch
Raised == [raised |-> TRUE, status |-> "error", failure_reason |-> "exception",
           rotate_proxy |-> FALSE]

handle_card_found(in) ==
    IF in.parse_ok THEN Outcome("success", "None", FALSE)
    ELSE Outcome("error", "parse_card_error", FALSE)

\* a removed-page handler that asks for a new proxy
handle_removed_rotating == Outcome("unavailable", "None", TRUE)

handle_removed == Outcome("unavailable", "None", FALSE)

handle_proxy_block(state) ==
    Outcome("error",
            IF state = PROXY_BLOCK_403 THEN "proxy_blocked_http_403"
            ELSE "proxy_blocked_http_407",
            TRUE)

\* an unexpected-page handler that asks for a new proxy
handle_unexpected_rotating(state) == Outcome("error", "unexpected_state_" \o state, TRUE)

handle_unexpected(state) == Outcome("error", "unexpected_state_" \o state, FALSE)

\* a captcha handler that asks for a new proxy whatever follows the solve
handle_captcha_rotating(in) ==
    IF ~in.solved THEN Outcome("error", "captcha_failed", TRUE)
    ELSE IF in.new_state = "DetectionError" THEN Raised
    ELSE IF in.new_state = CARD_FOUND THEN handle_card_found(in)
    ELSE IF in.new_state = REMOVED THEN handle_removed
    ELSE Outcome("error", "unexpected_after_captcha_" \o in.new_state, TRUE)

handle_captcha(in) ==
    IF ~in.solved THEN Outcome("error", "captcha_failed", TRUE)
    ELSE IF in.new_state = "DetectionError" THEN Raised
    ELSE IF in.new_state = CARD_FOUND THEN handle_card_found(in)
    ELSE IF in.new_state = REMOVED THEN handle_removed
    ELSE Outcome("error", "unexpected_after_captcha_" \o in.new_state, FALSE)

\* has_page: the slot has a page object (page.goto on None raises)
process_item(has_page, in) ==
    IF ~has_page \/ ~in.goto_ok THEN Raised
    ELSE IF in.state = "DetectionError" THEN Outcome("error", "detection_error", TRUE)
    ELSE IF in.state \in {CAPTCHA, CONTINUE_BUTTON, PROXY_BLOCK_429} THEN handle_captcha(in)
    ELSE IF in.state \in {PROXY_BLOCK_403, PROXY_AUTH_407} THEN handle_proxy_block(in.state)
    ELSE IF in.state = CARD_FOUND THEN handle_card_found(in)
    ELSE IF in.state = REMOVED THEN handle_removed
    ELSE IF in.state \in {SELLER_PROFILE, CATALOG} THEN handle_unexpected(in.state)
    ELSE Outcome("error", "unknown_state_" \o in.state, TRUE)

\* the result row save_result_to_db writes for an outcome (build_result,
\* handle_removed): the columns the lease decides
ResultRow(status, w, attempts) == [status |-> status, worker_id |-> w, attempts |-> attempts]

\* ------------------------------------------- retry loops (worker/db.py)
\* The Store operations, and those that raise when their retries are spent;
\* the others return False (db.py:56-339).
StoreOps ==
    {"acquire_task", "acquire_proxy", "release_proxy", "mark_proxy_blocked",
     "save_result_to_db", "mark_task_completed", "increment_task_attempts",
     "increment_worker_stats", "update_heartbeat"}

RaisingOps == {"acquire_task", "acquire_proxy"}

\* no operation followed
NoCall ==
    [op |-> "none", at |-> "idle", attempt |-> 0, conn_attempt |-> 0,
     connects |-> 0, delays |-> 0]

\* the operation's first pass: attempt 0 calls get_connection
Called(op) == [NoCall EXCEPT !.op = op, !.at = "get_connection"]

\* the operation's except clause: sleep RETRY_DELAY and go round again, or,
\* on the last pass, raise e / return False
op_except(c) ==
    IF c.attempt < DB_RETRY_ATTEMPTS - 1
    THEN [c EXCEPT !.attempt = @ + 1, !.conn_attempt = 0, !.delays = @ + 1,
                   !.at = "get_connection"]
    ELSE [c EXCEPT !.at = IF c.op \in RaisingOps THEN "raised" ELSE "returned_false"]

\* get_connection (db.py:42-53): one pool.acquire per pass of its own loop;
\* on failure sleep RETRY_DELAY and go round again, or, on the last pass,
\* raise e into the operation's except clause
get_connection(c, ok) ==
    LET d == [c EXCEPT !.connects = @ + 1]
    IN  IF ok THEN [d EXCEPT !.at = "execute"]
        ELSE IF c.conn_attempt < DB_RETRY_ATTEMPTS - 1
             THEN [d EXCEPT !.conn_attempt = @ + 1, !.delays = @ + 1]
             ELSE op_except(d)

\* the statement on the connection: it returns, or it raises into the
\* operation's except clause (pool.release runs in the finally)
execute(c, ok) == IF ok THEN [c EXCEPT !.at = "returned"] ELSE op_except(c)

\* ----------------------------------------------------------------- Init
\* Loaded by upload_tasks / upload_proxies: every task pending, every proxy
\* available, no worker row, no result row.  One upload is one transaction,
\* so its rows share created_at.
InitTask(t) ==
    [status |-> "pending", worker_id |-> NULL, attempts |-> 0,
     max_attempts |-> MAX_TASK_ATTEMPTS, created_at |-> 1,
     last_attempt_at |-> NoTime, completed_at |-> NoTime]

InitProxy(p) ==
    [status |-> "available", locked_by |-> NULL, locked_at |-> NoTime,
     last_used_at |-> NoTime, uses_count |-> 0, blocks_count |-> 0]

NoWorker ==
    [present |-> FALSE, status |-> "none", last_heartbeat |-> NoTime,
     tasks_processed |-> 0, tasks_failed |-> 0]

\* main launches k slots against n loaded tasks and m loaded proxies; the
\* janitor starts with a cleanup_cycle
Deployment(k, n, m) ==
    /\ tasks = [t \in 1..n |-> InitTask(t)]
    /\ proxies = [p \in 1..m |-> InitProxy(p)]
    /\ workers = [w \in 1..k |-> NoWorker]
    /\ results = [t \in 1..n |-> NoRow]
    /\ pc = [s \in 1..k |-> "register"]
    /\ current_proxy = [s \in 1..k |-> NULL]
    /\ page = [s \in 1..k |-> FALSE]
    /\ task = [s \in 1..k |-> NoTask]
    /\ result = [s \in 1..k |-> NoResult]
    /\ sel = [s \in 1..k |-> NULL]
    /\ last_heartbeat = [s \in 1..k |-> 0]
    /\ shutdown_event = FALSE
    /\ jpc = "release_stuck_tasks"
    /\ jtimer = 0
    /\ tasks_released = 0
    /\ config = Configured
    /\ store_call = NoCall
    /\ faults = [worker |-> 0, janitor |-> 0]

Init == Deployment(WORKERS_COUNT, NumTasks, NumProxies)

\* ------------------------------------------------- worker_loop (main.py)
Goto(s, to) == pc' = [pc EXCEPT ![s] = to]

LockedTasks == {t \in Tasks : TaskRowLocked(t)}
LockedProxies == {p \in Proxies : ProxyRowLocked(p)}

\* get_connection and the statement's retry loop: a statement either runs
\* or, its retries spent, changes nothing
Oks == IF faults.worker + faults.janitor < MaxFaults THEN BOOLEAN ELSE {TRUE}

WorkerFault(ok) == faults' = IF ok THEN faults ELSE [faults EXCEPT !.worker = @ + 1]

JanitorFault(ok) == faults' = IF ok THEN faults ELSE [faults EXCEPT !.janitor = @ + 1]

\* register_worker: update_heartbeat never raises (it returns False when its
\* retries are spent), so the first pass of the loop returns True.
RegisterWorker(s) ==
    /\ pc[s] = "register"
    /\ \E ok \in Oks :
         /\ workers' = IF ok THEN update_heartbeat(workers, s) ELSE workers
         /\ WorkerFault(ok)
    /\ last_heartbeat' = [last_heartbeat EXCEPT ![s] = 0]
    /\ Goto(s, "init_proxy_select")
    /\ UNCHANGED <<tasks, proxies, results, current_proxy, page, task, result, sel,
                   shutdown_event, jvars, store_call>>

\* init_playwright, acquire_proxy's sub-select.  No row: RuntimeError; retries
\* spent: acquire_proxy raises.  At line 151 both reach the outer except.
ProxySelect(s, at, to, onfail) ==
    /\ pc[s] = at
    /\ \E ok \in Oks :
         /\ WorkerFault(ok)
         /\ IF ok /\ acquire_proxy_select(proxies, LockedProxies) # {}
            THEN \E p \in acquire_proxy_select(proxies, LockedProxies) :
                    /\ sel' = [sel EXCEPT ![s] = p]
                    /\ Goto(s, to)
            ELSE /\ Goto(s, onfail)
                 /\ UNCHANGED sel
    /\ UNCHANGED <<dbvars, current_proxy, page, task, result, last_heartbeat,
                   shutdown_event, jvars, store_call>>

\* init_playwright, acquire_proxy's update and the browser launch.  A launch
\* that raises leaves the row locked and current_proxy unassigned.
ProxyUpdate(s, at, to, onfail) ==
    /\ pc[s] = at
    /\ proxies' = acquire_proxy_update(proxies, sel[s], s)
    /\ sel' = [sel EXCEPT ![s] = NULL]
    /\ \E launched \in Oks :
         /\ WorkerFault(launched)
         /\ IF launched
            THEN /\ current_proxy' = [current_proxy EXCEPT ![s] = sel[s]]
                 /\ page' = [page EXCEPT ![s] = TRUE]
                 /\ Goto(s, to)
            ELSE /\ Goto(s, onfail)
                 /\ UNCHANGED <<current_proxy, page>>
    /\ UNCHANGED <<tasks, workers, results, task, result, last_heartbeat,
                   shutdown_event, jvars, store_call>>

InitProxySelect(s) == ProxySelect(s, "init_proxy_select", "init_proxy_update", "finally")

InitProxyUpdate(s) == ProxyUpdate(s, "init_proxy_update", "loop", "finally")

\* while not shutdown_event.is_set()
LoopShutdown(s) ==
    /\ pc[s] = "loop"
    /\ shutdown_event
    /\ Goto(s, "finally")
    /\ UNCHANGED <<dbvars, current_proxy, page, task, result, sel, last_heartbeat,
                   shutdown_event, jvars, store_call, faults>>

HeartbeatDue(s) == last_heartbeat[s] > HEARTBEAT_INTERVAL

\* a loop in which a heartbeat whose retries are spent ends the slot
LoopHeartbeat_fatal(s) ==
    /\ pc[s] = "loop"
    /\ ~shutdown_event
    /\ HeartbeatDue(s)
    /\ \E ok \in Oks :
         /\ workers' = IF ok THEN update_heartbeat(workers, s) ELSE workers
         /\ WorkerFault(ok)
         /\ Goto(s, IF ok THEN "acquire_task" ELSE "finally")
    /\ last_heartbeat' = [last_heartbeat EXCEPT ![s] = 0]
    /\ UNCHANGED <<tasks, proxies, results, current_proxy, page, task, result, sel,
                   shutdown_event, jvars, store_call>>

\* the loop's heartbeat; its return value is not read
LoopHeartbeat(s) ==
    /\ pc[s] = "loop"
    /\ ~shutdown_event
    /\ HeartbeatDue(s)
    /\ \E ok \in Oks :
         /\ workers' = IF ok THEN update_heartbeat(workers, s) ELSE workers
         /\ WorkerFault(ok)
    /\ last_heartbeat' = [last_heartbeat EXCEPT ![s] = 0]
    /\ Goto(s, "acquire_task")
    /\ UNCHANGED <<tasks, proxies, results, current_proxy, page, task, result, sel,
                   shutdown_event, jvars, store_call>>

RECURSIVE SumAttempts(_)
SumAttempts(S) ==
    IF S = {} THEN 0
    ELSE LET t == CHOOSE x \in S : TRUE IN tasks[t].attempts + SumAttempts(S \ {t})

\* every lease adds one to its task's attempts, and nothing else changes it
LeasesSoFar == SumAttempts(Tasks)

AtAcquireTask(s) ==
    \/ pc[s] = "acquire_task"
    \/ pc[s] = "loop" /\ ~shutdown_event /\ ~HeartbeatDue(s)

\* the slot is about to lease and the model's lease bound is spent
LeaseBound(s) ==
    /\ AtAcquireTask(s)
    /\ acquire_task_select(tasks, LockedTasks) # {}
    /\ LeasesSoFar >= MaxLeases

\* acquire_task's sub-select.  No row: the loop breaks.  Retries spent:
\* acquire_task raises, outside the inner try.
AcquireTaskSelect(s) ==
    /\ AtAcquireTask(s)
    /\ ~LeaseBound(s)
    /\ \E ok \in Oks :
         /\ WorkerFault(ok)
         /\ IF ok /\ acquire_task_select(tasks, LockedTasks) # {}
            THEN \E t \in acquire_task_select(tasks, LockedTasks) :
                    /\ sel' = [sel EXCEPT ![s] = t]
                    /\ Goto(s, "acquire_task_update")
            ELSE /\ Goto(s, "finally")
                 /\ UNCHANGED sel
    /\ UNCHANGED <<dbvars, current_proxy, page, task, result, last_heartbeat,
                   shutdown_event, jvars, store_call>>

\* acquire_task's update, RETURNING id, item_id, attempts
AcquireTaskUpdate(s) ==
    /\ pc[s] = "acquire_task_update"
    /\ tasks' = acquire_task_update(tasks, sel[s], s)
    /\ task' = [task EXCEPT ![s] = [task_id |-> sel[s], attempts |-> tasks'[sel[s]].attempts]]
    /\ sel' = [sel EXCEPT ![s] = NULL]
    /\ Goto(s, "process_item")
    /\ UNCHANGED <<proxies, workers, results, current_proxy, page, result,
                   last_heartbeat, shutdown_event, jvars, store_call, faults>>

\* a dispatch that takes the success branch whatever the outcome
AfterOutcome_always_saved(r) == "save_result"

\* where the loop goes with an outcome in hand (lines 168, 183, 193)
AfterOutcome(r) ==
    IF r.status \in {"success", "unavailable"} THEN "save_result"
    ELSE "increment_task_attempts"

\* what worker_loop reads of an outcome: whether process_item raised, and
\* result["status"], result.get("rotate_proxy")
Seen(r) == [raised |-> r.raised, status |-> r.status, rotate_proxy |-> r.rotate_proxy]

OutcomesWithPage == {Seen(process_item(TRUE, in)) : in \in ProcessInputs}

OutcomesWithoutPage == {Seen(process_item(FALSE, in)) : in \in ProcessInputs}

\* a loop in which an exception of process_item ends the slot
ProcessItem_fatal(s) ==
    /\ pc[s] = "process_item"
    /\ \E r \in IF page[s] THEN OutcomesWithPage ELSE OutcomesWithoutPage :
         IF r.raised
         THEN /\ Goto(s, "finally")
              /\ UNCHANGED result
         ELSE /\ result' = [result EXCEPT ![s] =
                               [status |-> r.status, rotate_proxy |-> r.rotate_proxy]]
              /\ Goto(s, IF r.rotate_proxy THEN "mark_proxy_blocked" ELSE AfterOutcome(r))
    /\ UNCHANGED <<dbvars, current_proxy, page, task, sel, last_heartbeat,
                   shutdown_event, jvars, store_call, faults>>

\* process_item(page, task, current_proxy, worker_id)
ProcessItem(s) ==
    /\ pc[s] = "process_item"
    /\ \E r \in IF page[s] THEN OutcomesWithPage ELSE OutcomesWithoutPage :
         IF r.raised
         THEN /\ Goto(s, "increment_task_attempts")
              /\ UNCHANGED result
         ELSE /\ result' = [result EXCEPT ![s] =
                               [status |-> r.status, rotate_proxy |-> r.rotate_proxy]]
              /\ Goto(s, IF r.rotate_proxy THEN "mark_proxy_blocked" ELSE AfterOutcome(r))
    /\ UNCHANGED <<dbvars, current_proxy, page, task, sel, last_heartbeat,
                   shutdown_event, jvars, store_call, faults>>

\* a statement on one row waits while a lease statement holds the row's lock
\* lines 169-170: mark_proxy_blocked(current_proxy); its result is not read
MarkProxyBlocked(s) ==
    /\ pc[s] = "mark_proxy_blocked"
    /\ ~ProxyRowLocked(current_proxy[s])
    /\ \E ok \in Oks :
         /\ proxies' = IF ok THEN mark_proxy_blocked(proxies, current_proxy[s]) ELSE proxies
         /\ WorkerFault(ok)
    /\ Goto(s, "release_proxy")
    /\ UNCHANGED <<tasks, workers, results, current_proxy, page, task, result, sel,
                   last_heartbeat, shutdown_event, jvars, store_call>>

\* lines 170-177: cleanup_playwright, release_proxy(current_proxy), locals
\* reset to None
RotateReleaseProxy(s) ==
    /\ pc[s] = "release_proxy"
    /\ ~ProxyRowLocked(current_proxy[s])
    /\ \E ok \in Oks :
         /\ proxies' = IF ok THEN release_proxy(proxies, current_proxy[s]) ELSE proxies
         /\ WorkerFault(ok)
    /\ current_proxy' = [current_proxy EXCEPT ![s] = NULL]
    /\ page' = [page EXCEPT ![s] = FALSE]
    /\ Goto(s, "rotate_proxy_select")
    /\ UNCHANGED <<tasks, workers, results, task, result, sel, last_heartbeat,
                   shutdown_event, jvars, store_call>>

\* lines 179-181: init_playwright again; what it raises reaches the inner
\* except (lines 197-205)
RotateProxySelect(s) ==
    ProxySelect(s, "rotate_proxy_select", "rotate_proxy_update", "increment_task_attempts")

RotateProxyUpdate(s) ==
    ProxyUpdate(s, "rotate_proxy_update", AfterOutcome(result[s]), "increment_task_attempts")

\* line 184: save_result_to_db(result); its result is not read
SaveResult(s) ==
    /\ pc[s] = "save_result"
    /\ \E ok \in Oks :
         /\ results' = IF ok
                       THEN save_result_to_db(results, task[s].task_id,
                                ResultRow(result[s].status, s, task[s].attempts))
                       ELSE results
         /\ WorkerFault(ok)
    /\ Goto(s, "mark_task_completed")
    /\ UNCHANGED <<tasks, proxies, workers, current_proxy, page, task, result, sel,
                   last_heartbeat, shutdown_event, jvars, store_call>>

\* line 185: mark_task_completed(task_id); its result is not read
MarkTaskCompleted(s) ==
    /\ pc[s] = "mark_task_completed"
    /\ ~TaskRowLocked(task[s].task_id)
    /\ \E ok \in Oks :
         /\ tasks' = IF ok THEN mark_task_completed(tasks, task[s].task_id) ELSE tasks
         /\ WorkerFault(ok)
    /\ Goto(s, "stats_success")
    /\ UNCHANGED <<proxies, workers, results, current_proxy, page, task, result, sel,
                   last_heartbeat, shutdown_event, jvars, store_call>>

\* lines 186 and 195/205: increment_worker_stats, then the next iteration
WorkerStats(s, at, success) ==
    /\ pc[s] = at
    /\ \E ok \in Oks :
         /\ workers' = IF ok THEN increment_worker_stats(workers, s, success) ELSE workers
         /\ WorkerFault(ok)
    /\ task' = [task EXCEPT ![s] = NoTask]
    /\ result' = [result EXCEPT ![s] = NoResult]
    /\ Goto(s, "loop")
    /\ UNCHANGED <<tasks, proxies, results, current_proxy, page, sel, last_heartbeat,
                   shutdown_event, jvars, store_call>>

StatsSuccess(s) == WorkerStats(s, "stats_success", TRUE)

StatsFailed(s) == WorkerStats(s, "stats_failed", FALSE)

\* lines 194 and 204: increment_task_attempts(task_id); its result is not read
IncrementTaskAttempts(s) ==
    /\ pc[s] = "increment_task_attempts"
    /\ ~TaskRowLocked(task[s].task_id)
    /\ \E ok \in Oks :
         /\ tasks' = IF ok THEN increment_task_attempts(tasks, task[s].task_id) ELSE tasks
         /\ WorkerFault(ok)
    /\ Goto(s, "stats_failed")
    /\ UNCHANGED <<proxies, workers, results, current_proxy, page, task, result, sel,
                   last_heartbeat, shutdown_event, jvars, store_call>>

\* a slot that goes back to its loop where it should exit
Finally_reentering(s) ==
    /\ pc[s] = "finally"
    /\ Goto(s, "loop")
    /\ UNCHANGED <<dbvars, current_proxy, page, task, result, sel, last_heartbeat,
                   shutdown_event, jvars, store_call, faults>>

\* lines 215-220: cleanup_playwright; release_proxy(current_proxy) if held
Finally(s) ==
    /\ pc[s] = "finally"
    /\ IF current_proxy[s] = NULL
       THEN UNCHANGED <<proxies, faults>>
       ELSE /\ ~ProxyRowLocked(current_proxy[s])
            /\ \E ok \in Oks :
                 /\ proxies' = IF ok THEN release_proxy(proxies, current_proxy[s])
                               ELSE proxies
                 /\ WorkerFault(ok)
    /\ current_proxy' = [current_proxy EXCEPT ![s] = NULL]
    /\ page' = [page EXCEPT ![s] = FALSE]
    /\ last_heartbeat' = [last_heartbeat EXCEPT ![s] = 0]
    /\ Goto(s, "done")
    /\ UNCHANGED <<tasks, workers, results, task, result, sel, shutdown_event, jvars, store_call>>

Running(s) == pc[s] \notin {"done", "dead"}

\* the slot is between acquire_task's return and the end of the iteration
\* (lines 165-207)
MidLease(s) ==
    pc[s] \in {"process_item", "mark_proxy_blocked", "release_proxy", "rotate_proxy_select",
              "rotate_proxy_update", "save_result", "mark_task_completed", "stats_success",
              "increment_task_attempts", "stats_failed"}

\* the outcomes counted so far in the workers table
RECURSIVE SumStats(_)
SumStats(S) ==
    IF S = {} THEN 0
    ELSE LET w == CHOOSE x \in S : TRUE
         IN  workers[w].tasks_processed + workers[w].tasks_failed + SumStats(S \ {w})

\* the slot's process is killed: no finally block runs, a statement in
\* flight rolls back
Crash(s) ==
    /\ Running(s)
    /\ faults.worker + faults.janitor < MaxFaults
    /\ faults' = [faults EXCEPT !.worker = @ + 1]
    /\ Goto(s, "dead")
    /\ current_proxy' = [current_proxy EXCEPT ![s] = NULL]
    /\ page' = [page EXCEPT ![s] = FALSE]
    /\ task' = [task EXCEPT ![s] = NoTask]
    /\ result' = [result EXCEPT ![s] = NoResult]
    /\ sel' = [sel EXCEPT ![s] = NULL]
    /\ last_heartbeat' = [last_heartbeat EXCEPT ![s] = 0]
    /\ UNCHANGED <<dbvars, shutdown_event, jvars, store_call>>

\* signal_handler: SIGTERM / SIGINT
Signal ==
    /\ ~shutdown_event
    /\ shutdown_event' = TRUE
    /\ UNCHANGED <<dbvars, pc, current_proxy, page, task, result, sel, last_heartbeat,
                   jvars, store_call, faults>>

\* ------------------------------------------------- janitor (cleanup.py)
\* Each statement is the effect of one UPDATE on its table.  A row a lease
\* statement has row-locked is updated only after that statement commits,
\* when it no longer matches: it is left out.

\* a reclaim that also takes back the attempt counted at the lease
release_stuck_tasks_refunding(T) ==
    [t \in DOMAIN T |->
        IF T[t].status = "processing" /\ T[t].last_attempt_at > config.TASK_TIMEOUT
        THEN [T[t] EXCEPT !.status = "pending", !.worker_id = NULL,
                          !.last_attempt_at = NoTime, !.attempts = @ - 1]
        ELSE T[t]]

\* a release_stuck_tasks that matches no row
release_stuck_tasks_none(T) == T

\* release_stuck_tasks: last_attempt_at < NOW() - TASK_TIMEOUT
release_stuck_tasks(T) ==
    [t \in DOMAIN T |->
        IF T[t].status = "processing" /\ T[t].last_attempt_at > config.TASK_TIMEOUT
        THEN [T[t] EXCEPT !.status = "pending", !.worker_id = NULL,
                          !.last_attempt_at = NoTime]
        ELSE T[t]]

\* release_stuck_proxies: locked_at < NOW() - PROXY_TIMEOUT
release_stuck_proxies(P) ==
    [p \in DOMAIN P |->
        IF P[p].status = "locked" /\ P[p].locked_at > config.PROXY_TIMEOUT
        THEN [P[p] EXCEPT !.status = "available", !.locked_by = NULL,
                          !.locked_at = NoTime, !.last_used_at = 0]
        ELSE P[p]]

\* mark_dead_workers: last_heartbeat < NOW() - WORKER_TIMEOUT
mark_dead_workers(W) ==
    [w \in DOMAIN W |->
        IF W[w].present /\ W[w].status = "active" /\ W[w].last_heartbeat > config.WORKER_TIMEOUT
        THEN [W[w] EXCEPT !.status = "stopped"]
        ELSE W[w]]

\* a last statement that spares the tasks whose attempts equal max_attempts
fail_impossible_tasks_strict(T, locked) ==
    [t \in DOMAIN T |->
        IF T[t].status = "pending" /\ T[t].attempts > T[t].max_attempts /\ t \notin locked
        THEN [T[t] EXCEPT !.status = "failed"]
        ELSE T[t]]

\* fail_impossible_tasks
fail_impossible_tasks(T, locked) ==
    [t \in DOMAIN T |->
        IF T[t].status = "pending" /\ T[t].attempts >= T[t].max_attempts /\ t \notin locked
        THEN [T[t] EXCEPT !.status = "failed"]
        ELSE T[t]]

\* main wakes after CLEANUP_INTERVAL and runs cleanup_cycle; a statement
\* whose retries are spent returns 0 and the cycle goes on.
ReleaseStuckTasks ==
    /\ \/ jpc = "release_stuck_tasks"
       \/ jpc = "sleep" /\ jtimer >= CLEANUP_INTERVAL
    /\ \E ok \in Oks :
         /\ tasks' = IF ok THEN release_stuck_tasks(tasks) ELSE tasks
         /\ JanitorFault(ok)
    /\ tasks_released' = Cardinality({t \in Tasks : tasks'[t] # tasks[t]})
    /\ jpc' = "release_stuck_proxies"
    /\ UNCHANGED <<proxies, workers, results, pc, current_proxy, page, task, result, sel,
                   last_heartbeat, shutdown_event, jtimer, config, store_call>>

ReleaseStuckProxies ==
    /\ jpc = "release_stuck_proxies"
    /\ \E ok \in Oks :
         /\ proxies' = IF ok THEN release_stuck_proxies(proxies) ELSE proxies
         /\ JanitorFault(ok)
    /\ jpc' = "mark_dead_workers"
    /\ UNCHANGED <<tasks, workers, results, pc, current_proxy, page, task, result, sel,
                   last_heartbeat, shutdown_event, jtimer, tasks_released, config, store_call>>

MarkDeadWorkers ==
    /\ jpc = "mark_dead_workers"
    /\ \E ok \in Oks :
         /\ workers' = IF ok THEN mark_dead_workers(workers) ELSE workers
         /\ JanitorFault(ok)
    /\ jpc' = "fail_impossible_tasks"
    /\ UNCHANGED <<tasks, proxies, results, pc, current_proxy, page, task, result, sel,
                   last_heartbeat, shutdown_event, jtimer, tasks_released, config, store_call>>

\* the last statement of cleanup_cycle; main goes to sleep
FailImpossibleTasks ==
    /\ jpc = "fail_impossible_tasks"
    /\ \E ok \in Oks :
         /\ tasks' = IF ok THEN fail_impossible_tasks(tasks, LockedTasks) ELSE tasks
         /\ JanitorFault(ok)
    /\ jpc' = "sleep"
    /\ jtimer' = 0
    /\ tasks_released' = 0
    /\ UNCHANGED <<proxies, workers, results, pc, current_proxy, page, task, result, sel,
                   last_heartbeat, shutdown_event, config, store_call>>

\* ------------------------------------------------------------------ time
\* a slot at which time passes: in the browser, finished, or stopped by the
\* lease bound
Quiet(s) == pc[s] \in {"process_item", "done", "dead"} \/ LeaseBound(s)

\* One unit of the janitor's sleep passes.  The janitor wakes when its sleep
\* is over, and its four statements take no time.
Elapse ==
    /\ jpc = "sleep"
    /\ jtimer < CLEANUP_INTERVAL
    /\ jtimer' = jtimer + 1
    /\ tasks' = [t \in Tasks |->
                   [tasks[t] EXCEPT !.last_attempt_at = Aged(@, TaskAgeCap)]]
    /\ proxies' = [p \in Proxies |->
                   [proxies[p] EXCEPT !.locked_at = Aged(@, ProxyAgeCap)]]
    /\ workers' = [w \in Slots |->
                   [workers[w] EXCEPT !.last_heartbeat = Aged(@, WorkerAgeCap)]]
    /\ last_heartbeat' = [s \in Slots |->
                   IF Running(s) THEN Aged(last_heartbeat[s], BeatAgeCap) ELSE 0]
    /\ UNCHANGED <<results, pc, current_proxy, page, task, result, sel, shutdown_event,
                   jpc, tasks_released, config, store_call, faults>>

Tick ==
    /\ \A s \in Slots : Quiet(s)
    /\ Elapse

\* time also passes before a slot's process has started
LateTick ==
    /\ \A s \in Slots : Quiet(s) \/ pc[s] = "register"
    /\ Elapse

\* ------------------------------------------------------------------ Next
SlotStep(s) ==
    \/ RegisterWorker(s)
    \/ InitProxySelect(s)
    \/ InitProxyUpdate(s)
    \/ LoopShutdown(s)
    \/ LoopHeartbeat(s)
    \/ AcquireTaskSelect(s)
    \/ AcquireTaskUpdate(s)
    \/ ProcessItem(s)
    \/ MarkProxyBlocked(s)
    \/ RotateReleaseProxy(s)
    \/ RotateProxySelect(s)
    \/ RotateProxyUpdate(s)
    \/ SaveResult(s)
    \/ MarkTaskCompleted(s)
    \/ StatsSuccess(s)
    \/ IncrementTaskAttempts(s)
    \/ StatsFailed(s)
    \/ Finally(s)

Janitor ==
    \/ ReleaseStuckTasks
    \/ ReleaseStuckProxies
    \/ MarkDeadWorkers
    \/ FailImpossibleTasks

Next ==
    \/ \E s \in Slots : SlotStep(s)
    \/ \E s \in Slots : Crash(s)
    \/ Signal
    \/ Janitor
    \/ Tick

Spec == Init /\ [][Next]_vars

\* ------------------------------------------------------------- progress
\* A deployment of LiveWorkers slots.  The event loop runs a slot that can
\* step, the janitor's loop runs, and time passes.
LiveInit == Deployment(LiveWorkers, NumTasks, NumProxies)

LiveSpec ==
    /\ LiveInit
    /\ [][Next]_vars
    /\ \A s \in 1..LiveWorkers : WF_vars(SlotStep(s))
    /\ WF_vars(Janitor)
    /\ WF_vars(Tick)

\* ------------------------------------------------------------ lease order
\* A fault-free deployment of OrderWorkers slots on OrderTasks tasks loaded
\* by up to Uploads runs of upload_tasks in append mode: task ids follow the
\* order of insertion, and so does created_at, which rows of one upload may
\* share.  No lease outlives TASK_TIMEOUT here, so the janitor has nothing
\* to do and is left out.
OrderInit ==
    /\ \E c \in [1..OrderTasks -> 1..Uploads] :
         /\ \A t, u \in 1..OrderTasks : t <= u => c[t] <= c[u]
         /\ tasks = [t \in 1..OrderTasks |-> [InitTask(t) EXCEPT !.created_at = c[t]]]
    /\ proxies = [p \in 1..NumProxies |-> InitProxy(p)]
    /\ workers = [w \in 1..OrderWorkers |-> NoWorker]
    /\ results = [t \in 1..OrderTasks |-> NoRow]
    /\ pc = [s \in 1..OrderWorkers |-> "register"]
    /\ current_proxy = [s \in 1..OrderWorkers |-> NULL]
    /\ page = [s \in 1..OrderWorkers |-> FALSE]
    /\ task = [s \in 1..OrderWorkers |-> NoTask]
    /\ result = [s \in 1..OrderWorkers |-> NoResult]
    /\ sel = [s \in 1..OrderWorkers |-> NULL]
    /\ last_heartbeat = [s \in 1..OrderWorkers |-> 0]
    /\ shutdown_event = FALSE
    /\ jpc = "sleep"
    /\ jtimer = 0
    /\ tasks_released = 0
    /\ config = Configured
    /\ store_call = NoCall
    /\ faults = [worker |-> MaxFaults, janitor |-> 0]

OrderNext ==
    \/ \E s \in Slots : SlotStep(s)
    \/ Signal

OrderSpec == OrderInit /\ [][OrderNext]_vars


\* ------------------------------------------------------------------ retry
\* One slot on one task loaded with max_attempts = RetryMaxAttempts, no
\* fault, and every lease released within TASK_TIMEOUT.
RetryInit ==
    /\ tasks = [t \in 1..NumTasks |->
                  [InitTask(t) EXCEPT !.max_attempts = RetryMaxAttempts]]
    /\ proxies = [p \in 1..NumProxies |-> InitProxy(p)]
    /\ workers = [w \in 1..LiveWorkers |-> NoWorker]
    /\ results = [t \in 1..NumTasks |-> NoRow]
    /\ pc = [s \in 1..LiveWorkers |-> "register"]
    /\ current_proxy = [s \in 1..LiveWorkers |-> NULL]
    /\ page = [s \in 1..LiveWorkers |-> FALSE]
    /\ task = [s \in 1..LiveWorkers |-> NoTask]
    /\ result = [s \in 1..LiveWorkers |-> NoResult]
    /\ sel = [s \in 1..LiveWorkers |-> NULL]
    /\ last_heartbeat = [s \in 1..LiveWorkers |-> 0]
    /\ shutdown_event = FALSE
    /\ jpc = "sleep"
    /\ jtimer = 0
    /\ tasks_released = 0
    /\ config = Configured
    /\ store_call = NoCall
    /\ faults = [worker |-> MaxFaults, janitor |-> 0]

RetrySpec == RetryInit /\ [][OrderNext]_vars

\* ---------------------------------------------------------- environment
\* One slot and the janitor, no fault, under every environment the janitor
\* can be started with: cleanup.py reads each timeout with int(os.getenv())
\* and main goes straight to its loop.
ConfigInit ==
    /\ tasks = [t \in 1..NumTasks |-> InitTask(t)]
    /\ proxies = [p \in 1..NumProxies |-> InitProxy(p)]
    /\ workers = [w \in 1..LiveWorkers |-> NoWorker]
    /\ results = [t \in 1..NumTasks |-> NoRow]
    /\ pc = [s \in 1..LiveWorkers |-> "register"]
    /\ current_proxy = [s \in 1..LiveWorkers |-> NULL]
    /\ page = [s \in 1..LiveWorkers |-> FALSE]
    /\ task = [s \in 1..LiveWorkers |-> NoTask]
    /\ result = [s \in 1..LiveWorkers |-> NoResult]
    /\ sel = [s \in 1..LiveWorkers |-> NULL]
    /\ last_heartbeat = [s \in 1..LiveWorkers |-> 0]
    /\ shutdown_event = FALSE
    /\ jpc = "release_stuck_tasks"
    /\ jtimer = 0
    /\ tasks_released = 0
    /\ config \in [TASK_TIMEOUT : 1..MaxTimeout, PROXY_TIMEOUT : 1..MaxTimeout,
                   WORKER_TIMEOUT : 1..MaxTimeout]
    /\ store_call = NoCall
    /\ faults = [worker |-> MaxFaults, janitor |-> 0]

ConfigNext ==
    \/ \E s \in Slots : SlotStep(s)
    \/ Signal
    \/ Janitor
    \/ Tick

ConfigSpec == ConfigInit /\ [][ConfigNext]_vars

\* ------------------------------------------------------------- retries
\* One Store operation, followed from its call to its return through every
\* pattern of connection and statement failures; the tables stay as loaded.
StoreInit ==
    /\ tasks = [t \in 1..NumTasks |-> InitTask(t)]
    /\ proxies = [p \in 1..NumProxies |-> InitProxy(p)]
    /\ workers = [w \in 1..LiveWorkers |-> NoWorker]
    /\ results = [t \in 1..NumTasks |-> NoRow]
    /\ pc = [s \in 1..LiveWorkers |-> "done"]
    /\ current_proxy = [s \in 1..LiveWorkers |-> NULL]
    /\ page = [s \in 1..LiveWorkers |-> FALSE]
    /\ task = [s \in 1..LiveWorkers |-> NoTask]
    /\ result = [s \in 1..LiveWorkers |-> NoResult]
    /\ sel = [s \in 1..LiveWorkers |-> NULL]
    /\ last_heartbeat = [s \in 1..LiveWorkers |-> 0]
    /\ shutdown_event = FALSE
    /\ jpc = "sleep"
    /\ jtimer = 0
    /\ tasks_released = 0
    /\ config = Configured
    /\ store_call \in {Called(op) : op \in StoreOps}
    /\ faults = [worker |-> 0, janitor |-> 0]

PoolAcquire ==
    /\ store_call.at = "get_connection"
    /\ \E ok \in BOOLEAN : store_call' = get_connection(store_call, ok)
    /\ UNCHANGED <<dbvars, pc, current_proxy, page, task, result, sel, last_heartbeat,
                   shutdown_event, jvars, faults>>

Execute ==
    /\ store_call.at = "execute"
    /\ \E ok \in BOOLEAN : store_call' = execute(store_call, ok)
    /\ UNCHANGED <<dbvars, pc, current_proxy, page, task, result, sel, last_heartbeat,
                   shutdown_event, jvars, faults>>

StoreNext ==
    \/ PoolAcquire
    \/ Execute

StoreSpec == StoreInit /\ [][StoreNext]_vars

\* ------------------------------------------------------------ late start
\* WORKERS_COUNT slots whose processes start at any time, the janitor and
\* the clock, no fault: a slot can start after another slot's lease has
\* expired.
LateInit ==
    /\ tasks = [t \in 1..NumTasks |-> InitTask(t)]
    /\ proxies = [p \in 1..NumProxies |-> InitProxy(p)]
    /\ workers = [w \in 1..WORKERS_COUNT |-> NoWorker]
    /\ results = [t \in 1..NumTasks |-> NoRow]
    /\ pc = [s \in 1..WORKERS_COUNT |-> "register"]
    /\ current_proxy = [s \in 1..WORKERS_COUNT |-> NULL]
    /\ page = [s \in 1..WORKERS_COUNT |-> FALSE]
    /\ task = [s \in 1..WORKERS_COUNT |-> NoTask]
    /\ result = [s \in 1..WORKERS_COUNT |-> NoResult]
    /\ sel = [s \in 1..WORKERS_COUNT |-> NULL]
    /\ last_heartbeat = [s \in 1..WORKERS_COUNT |-> 0]
    /\ shutdown_event = FALSE
    /\ jpc = "release_stuck_tasks"
    /\ jtimer = 0
    /\ tasks_released = 0
    /\ config = Configured
    /\ store_call = NoCall
    /\ faults = [worker |-> MaxFaults, janitor |-> 0]

LateNext ==
    \/ \E s \in Slots : SlotStep(s)
    \/ Signal
    \/ Janitor
    \/ LateTick

LateSpec == LateInit /\ [][LateNext]_vars

\* --------------------------------------------------------------- claims
ProxyUpdatePcs == {"init_proxy_update", "rotate_proxy_update"}

\* C1: acquire_task returns a task only when that task was pending and no
\* other acquire_task in flight holds it, and the return leaves it in
\* processing under the caller's worker_id: one pending episode gives one
\* lease, and a task in processing is not leased again before it is pending.
C1_TaskLeaseExclusive ==
    [][\A s \in Slots :
         (pc[s] = "acquire_task_update" /\ pc'[s] = "process_item") =>
            /\ tasks[sel[s]].status = "pending"
            /\ \A o \in Slots \ {s} : ~(pc[o] = "acquire_task_update" /\ sel[o] = sel[s])
            /\ tasks'[sel[s]].status = "processing"
            /\ tasks'[sel[s]].worker_id = s
            /\ task'[s].task_id = sel[s]]_vars

\* one slot has row-locked the never-leased task, and another slot's
\* acquire_task, run meanwhile without a fault, found no row and broke out
C1_Witness ==
    \E s \in Slots, o \in Slots :
        /\ s # o
        /\ pc[s] = "acquire_task_update"
        /\ tasks[sel[s]].attempts = 0
        /\ pc[o] = "finally"
        /\ current_proxy[o] # NULL
        /\ ~shutdown_event
        /\ faults.worker = 0

\* C2: acquire_proxy returns a proxy only when that proxy was available and
\* no other acquire_proxy in flight holds it, and the return leaves it locked
\* with locked_by set to the caller.
C2_ProxyLeaseExclusive ==
    [][\A s \in Slots :
         (pc[s] \in ProxyUpdatePcs /\ pc'[s] \notin ProxyUpdatePcs \cup {"dead"}) =>
            /\ proxies[sel[s]].status = "available"
            /\ \A o \in Slots \ {s} : ~(pc[o] \in ProxyUpdatePcs /\ sel[o] = sel[s])
            /\ proxies'[sel[s]].status = "locked"
            /\ proxies'[sel[s]].locked_by = s]_vars

\* two slots are in acquire_proxy at once, each with a row of its own
C2_Witness ==
    \E s \in Slots, o \in Slots :
        /\ s # o
        /\ pc[s] \in ProxyUpdatePcs
        /\ pc[o] \in ProxyUpdatePcs
        /\ sel[s] # sel[o]

\* C3: a proxy mark_proxy_blocked has been applied to (blocks_count > 0) is
\* never the row an acquire_proxy returns.
C3_BlockedNeverLeased ==
    \A s \in Slots : pc[s] \in ProxyUpdatePcs => proxies[sel[s]].blocks_count = 0

\* C4: every task has attempts <= max_attempts.
C4_AttemptsBounded ==
    \A t \in Tasks : tasks[t].attempts <= tasks[t].max_attempts

\* C5 as stated: a task is failed if and only if its attempts >= max_attempts
\* and it is not in processing.
C5_FailedIffSpent ==
    \A t \in Tasks :
        tasks[t].status = "failed" <=>
            (tasks[t].attempts >= tasks[t].max_attempts /\ tasks[t].status # "processing")

\* C5: a failed task has attempts >= max_attempts and no lease (worker_id
\* and last_attempt_at are null).
C5_FailedOnlyWhenSpent ==
    \A t \in Tasks :
        tasks[t].status = "failed" =>
            /\ tasks[t].attempts >= tasks[t].max_attempts
            /\ tasks[t].worker_id = NULL
            /\ tasks[t].last_attempt_at = NoTime

\* a task has been failed
C5_Witness ==
    \E t \in Tasks : tasks[t].status = "failed" /\ tasks[t].attempts = tasks[t].max_attempts

\* C6: a task's worker_id is non-null exactly when its status is processing.
C6_WorkerIdIffProcessing ==
    \A t \in Tasks : tasks[t].worker_id # NULL <=> tasks[t].status = "processing"

\* C7: a locked proxy has locked_by and locked_at set; an available or
\* blocked proxy has both null.
C7_ProxyLeaseFields ==
    \A p \in Proxies :
        IF proxies[p].status = "locked"
        THEN proxies[p].locked_by # NULL /\ proxies[p].locked_at # NoTime
        ELSE proxies[p].locked_by = NULL /\ proxies[p].locked_at = NoTime

\* C8: a completed task has its Result row.
C8_CompletedHasResult ==
    \A t \in Tasks : tasks[t].status = "completed" => results[t].status # "none"

\* C9: while no janitor statement has failed, a task in processing has held
\* its lease for at most TASK_TIMEOUT + CLEANUP_INTERVAL; and every task in
\* processing is later not in processing.
C9_NoTaskStuck ==
    /\ [](faults.janitor = 0 =>
            \A t \in Tasks :
                tasks[t].status = "processing" =>
                    tasks[t].last_attempt_at <= TASK_TIMEOUT + CLEANUP_INTERVAL)
    /\ \A t \in 1..NumTasks :
          (tasks[t].status = "processing") ~> (tasks[t].status # "processing")

\* release_stuck_tasks has just returned a task to pending, worker_id
\* cleared, and every slot is dead
C9_Witness ==
    /\ jpc = "release_stuck_proxies"
    /\ tasks_released > 0
    /\ \A s \in Slots : pc[s] = "dead"
    /\ \E t \in Tasks :
          /\ tasks[t].status = "pending"
          /\ tasks[t].worker_id = NULL
          /\ tasks[t].attempts > 0

\* C10: once every slot has left its loop, none killed and none signalled,
\* and a slot was registered and has worked, every task is completed or
\* failed, or has no attempt left (the janitor fails it).
C10_DrainedMeansDone ==
    ( /\ \A s \in Slots : pc[s] = "done"
      /\ ~shutdown_event
      /\ \E s \in Slots :
            workers[s].present /\ workers[s].tasks_processed + workers[s].tasks_failed > 0 )
    =>
    \A t \in Tasks :
        \/ tasks[t].status \in {"completed", "failed"}
        \/ tasks[t].attempts >= tasks[t].max_attempts

\* C11: Task FIFO.  Whenever acquire_task's sub-select picks a task, no
\* other task that is pending and not row-locked at that moment has a
\* strictly smaller created_at; and no step changes a task's created_at, so
\* a released task is ordered by its original created_at.
C11_TaskFifo ==
    [][/\ \A s \in Slots :
            (pc[s] # "acquire_task_update" /\ pc'[s] = "acquire_task_update") =>
                \A u \in Tasks :
                    (tasks[u].status = "pending" /\ ~TaskRowLocked(u)) =>
                        tasks[sel'[s]].created_at <= tasks[u].created_at
       /\ \A t \in Tasks : tasks'[t].created_at = tasks[t].created_at]_vars

\* a released task, leased again ahead of a newer task that was never leased
C11_Witness ==
    \E s \in Slots : \E u \in Tasks :
        /\ pc[s] = "acquire_task_update"
        /\ tasks[sel[s]].attempts > 0
        /\ tasks[sel[s]].status = "pending"
        /\ u # sel[s]
        /\ tasks[u].status = "pending"
        /\ tasks[u].attempts = 0
        /\ tasks[u].created_at > tasks[sel[s]].created_at

\* C12: lease selection is deterministic on ties.  Among the pending tasks
\* with the least created_at acquire_task picks the smallest task_id, and
\* among the available proxies with the least uses_count acquire_proxy
\* picks the smallest proxy_id.
C12_TieBreakById ==
    [][\A s \in Slots :
          /\ (pc[s] # "acquire_task_update" /\ pc'[s] = "acquire_task_update") =>
                \A u \in Tasks :
                    (/\ tasks[u].status = "pending"
                     /\ ~TaskRowLocked(u)
                     /\ tasks[u].created_at = tasks[sel'[s]].created_at) => sel'[s] <= u
          /\ (pc[s] \notin ProxyUpdatePcs /\ pc'[s] \in ProxyUpdatePcs) =>
                \A q \in Proxies :
                    (/\ proxies[q].status = "available"
                     /\ ~ProxyRowLocked(q)
                     /\ proxies[q].uses_count = proxies[sel'[s]].uses_count) => sel'[s] <= q]_vars

\* C13: proxy load-levelling.  Whenever acquire_proxy's sub-select picks a
\* proxy, no proxy that is available and not row-locked at that moment has a
\* smaller uses_count; and the update adds exactly 1 to the uses_count of
\* the proxy it leases and leaves every other uses_count as it was.
C13_ProxyLeastUsed ==
    [][\A s \in Slots :
          /\ (pc[s] \notin ProxyUpdatePcs /\ pc'[s] \in ProxyUpdatePcs) =>
                \A q \in Proxies :
                    (proxies[q].status = "available" /\ ~ProxyRowLocked(q)) =>
                        proxies[sel'[s]].uses_count <= proxies[q].uses_count
          /\ (pc[s] \in ProxyUpdatePcs /\ pc'[s] \notin ProxyUpdatePcs \cup {"dead"}) =>
                \A q \in Proxies :
                    proxies'[q].uses_count =
                        proxies[q].uses_count + (IF q = sel[s] THEN 1 ELSE 0)]_vars

\* a slot has picked the less used of two proxies that were both on offer
C13_Witness ==
    \E s \in Slots : \E q \in Proxies :
        /\ pc[s] \in ProxyUpdatePcs
        /\ q # sel[s]
        /\ proxies[q].status = "available"
        /\ ~ProxyRowLocked(q)
        /\ proxies[sel[s]].uses_count > 0
        /\ proxies[q].uses_count > proxies[sel[s]].uses_count

\* C14: release_proxy changes only a proxy that is locked.  When a slot
\* runs release_proxy (after mark_proxy_blocked in the rotation path, or in
\* its finally block) on a proxy whose status is available or blocked, the
\* row is left as it was.
C14_ReleaseOnlyLocked ==
    [][\A s \in Slots :
          (/\ \/ pc[s] = "release_proxy" /\ pc'[s] = "rotate_proxy_select"
              \/ pc[s] = "finally" /\ pc'[s] = "done"
           /\ current_proxy[s] # NULL
           /\ proxies[current_proxy[s]].status # "locked") =>
                proxies'[current_proxy[s]] = proxies[current_proxy[s]]]_vars

\* C15: the release statement.  When a slot's increment_task_attempts runs
\* on its task, the row gets worker_id and last_attempt_at cleared and
\* status failed if its attempts (already counted by acquire_task) have
\* reached max_attempts, pending otherwise; attempts and the row's other
\* columns keep their values, and every other task row is unchanged.
C15_ReleaseTask ==
    [][\A s \in Slots :
          (/\ pc[s] = "increment_task_attempts"
           /\ pc'[s] = "stats_failed"
           /\ faults' = faults) =>
                LET t == task[s].task_id IN
                /\ tasks'[t] =
                     [tasks[t] EXCEPT
                        !.status = IF tasks[t].attempts >= tasks[t].max_attempts
                                   THEN "failed" ELSE "pending",
                        !.worker_id = NULL,
                        !.last_attempt_at = NoTime]
                /\ tasks'[t].attempts = tasks[t].attempts
                /\ \A u \in Tasks \ {t} : tasks'[u] = tasks[u]]_vars

\* a slot has just released its task as failed while the other slot holds
\* the other task
C15_Witness ==
    \E s, o \in Slots :
        /\ pc[s] = "stats_failed"
        /\ tasks[task[s].task_id].status = "failed"
        /\ tasks[task[s].task_id].worker_id = NULL
        /\ pc[o] = "process_item"
        /\ task[o].task_id # task[s].task_id
        /\ tasks[task[o].task_id].worker_id = o

\* C16: retry then failure.  A task loaded with max_attempts = 3 whose
\* every processing ends in an error outcome goes pending -> processing ->
\* pending three times and is failed only at the fourth acquire, that is,
\* with more leases counted than max_attempts.
C16_FailedAtFourthAcquire ==
    \A t \in Tasks : tasks[t].status = "failed" => tasks[t].attempts > tasks[t].max_attempts

\* C16, as the code has it: while no result has been saved for the task, it
\* is pending only with fewer than max_attempts leases counted, it is failed
\* exactly with max_attempts leases counted (the release after the last
\* lease fails it; there is no further acquire), and the results table is
\* written only by a slot whose outcome is success or unavailable.
C16_FailedAtLastRelease ==
    /\ [](\A t \in 1..NumTasks :
            results[t].status = "none" =>
                /\ tasks[t].attempts <= tasks[t].max_attempts
                /\ tasks[t].status = "pending" => tasks[t].attempts < tasks[t].max_attempts
                /\ tasks[t].status = "failed" => tasks[t].attempts = tasks[t].max_attempts
                /\ tasks[t].status # "completed")
    /\ [][results' # results =>
            \E s \in Slots : /\ pc[s] = "save_result"
                             /\ result[s].status \in {"success", "unavailable"}]_vars

\* the task has failed after RetryMaxAttempts processings that ended in an
\* error, with no result row
C16_Witness ==
    \E s \in Slots : \E t \in Tasks :
        /\ tasks[t].status = "failed"
        /\ tasks[t].attempts = RetryMaxAttempts
        /\ workers[s].tasks_failed = RetryMaxAttempts
        /\ workers[s].tasks_processed = 0
        /\ results[t].status = "none"

\* C17: save_result_to_db is an idempotent upsert keyed by item_id.  Every
\* save leaves the item's row equal to the result saved, whatever row was
\* there, and leaves the other items' rows alone; the table always has one
\* row slot per item; and saving the same result a second time changes
\* nothing.
C17_SaveResultUpsert ==
    /\ [](\A t \in DOMAIN results : \A st \in {"success", "unavailable"} :
            \A w \in Slots : \A a \in 1..MaxLeases :
                LET once == save_result_to_db(results, t, ResultRow(st, w, a))
                IN  /\ save_result_to_db(once, t, ResultRow(st, w, a)) = once
                    /\ DOMAIN once = DOMAIN results
                    /\ once[t] = ResultRow(st, w, a))
    /\ [][\A s \in Slots :
            (/\ pc[s] = "save_result"
             /\ pc'[s] = "mark_task_completed"
             /\ faults' = faults) =>
                /\ results'[task[s].task_id] =
                        ResultRow(result[s].status, s, task[s].attempts)
                /\ \A u \in DOMAIN results \ {task[s].task_id} : results'[u] = results[u]]_vars

\* a slot is about to save a result for an item that already has a row
\* saved by an earlier lease
C17_Witness ==
    \E s \in Slots :
        /\ pc[s] = "save_result"
        /\ results[task[s].task_id].status # "none"
        /\ results[task[s].task_id].attempts # task[s].attempts

\* C18: update_heartbeat is an upsert.  After a heartbeat that ran (at
\* registration or in the loop) the slot's worker row exists with status
\* active and a fresh last_heartbeat, whether the row was absent, active or
\* stopped by the janitor; an existing row keeps its tasks_processed and
\* tasks_failed, and the other workers' rows are unchanged.
C18_HeartbeatUpsert ==
    [][\A s \in Slots :
          (/\ \/ pc[s] = "register" /\ pc'[s] = "init_proxy_select"
              \/ pc[s] = "loop" /\ pc'[s] = "acquire_task"
           /\ faults' = faults) =>
                /\ workers'[s].present
                /\ workers'[s].status = "active"
                /\ workers'[s].last_heartbeat = 0
                /\ workers[s].present =>
                      /\ workers'[s].tasks_processed = workers[s].tasks_processed
                      /\ workers'[s].tasks_failed = workers[s].tasks_failed
                /\ \A o \in Slots \ {s} : workers'[o] = workers[o]]_vars

\* a slot the janitor has marked stopped, with tasks counted, is about to
\* send its next heartbeat
C18_Witness ==
    \E s \in Slots :
        /\ pc[s] = "loop"
        /\ ~shutdown_event
        /\ HeartbeatDue(s)
        /\ workers[s].present
        /\ workers[s].status = "stopped"
        /\ workers[s].tasks_processed + workers[s].tasks_failed > 0
        /\ faults.worker + faults.janitor = 0

\* C19: a Store operation other than the heartbeat whose retries are spent
\* is fatal to the slot.  Whenever a slot's statement (not its heartbeat,
\* and not the browser launch) fails for good, the slot's next position is
\* its finally block: it does not go on as if the statement had run.  (A
\* slot already in its finally block is exiting anyway.)
C19_StoreErrorIsFatal ==
    [][\A s \in Slots :
          (/\ faults'.worker > faults.worker
           /\ pc'[s] # pc[s]
           /\ pc'[s] # "dead"
           /\ pc[s] \notin {"register", "finally"}
           /\ ~(pc[s] = "loop" /\ pc'[s] = "acquire_task")
           /\ pc[s] \notin ProxyUpdatePcs) => pc'[s] = "finally"]_vars

\* C20: the decision table of process_item.  For a slot with a page and a
\* navigation that succeeds, the label of the first detection decides the
\* outcome: proxy_block_403 / proxy_auth_407 give error, rotate_proxy and
\* failure_reason proxy_blocked_http_403 / _407; card_found gives success
\* when the parse succeeds and error, no rotation, parse_card_error when it
\* fails; removed gives unavailable with no failure_reason; seller_profile /
\* catalog give error, no rotation, unexpected_state_{label}; a label
\* outside the list gives error with rotate_proxy.
C20_DecisionTable ==
    \A s \in Slots : \A in \in ProcessInputs :
        (page[s] /\ in.goto_ok) =>
            LET r == process_item(page[s], in) IN
            /\ in.state = PROXY_BLOCK_403 =>
                  r = Outcome("error", "proxy_blocked_http_403", TRUE)
            /\ in.state = PROXY_AUTH_407 =>
                  r = Outcome("error", "proxy_blocked_http_407", TRUE)
            /\ (in.state = CARD_FOUND /\ in.parse_ok) =>
                  (~r.raised /\ r.status = "success" /\ ~r.rotate_proxy)
            /\ (in.state = CARD_FOUND /\ ~in.parse_ok) =>
                  r = Outcome("error", "parse_card_error", FALSE)
            /\ in.state = REMOVED => r = Outcome("unavailable", "None", FALSE)
            /\ in.state = SELLER_PROFILE =>
                  r = Outcome("error", "unexpected_state_seller_profile", FALSE)
            /\ in.state = CATALOG =>
                  r = Outcome("error", "unexpected_state_catalog", FALSE)
            /\ in.state = "not_detected" =>
                  (~r.raised /\ r.status = "error" /\ r.rotate_proxy)

\* a slot with a page has an error outcome without rotation in hand and is
\* about to release its task
C20_Witness ==
    \E s \in Slots :
        /\ page[s]
        /\ pc[s] = "increment_task_attempts"
        /\ result[s].status = "error"
        /\ ~result[s].rotate_proxy
        /\ current_proxy[s] # NULL
        /\ tasks[task[s].task_id].worker_id = s

\* C21: the CAPTCHA flow.  When the first detection gives proxy_block_429,
\* captcha or continue_button, the one answer of the resolver and the one
\* re-detection decide the outcome: not solved gives error with
\* rotate_proxy; solved gives success for card_found (when the parse
\* succeeds), unavailable for removed, and for every other label (a second
\* captcha included) error without rotation.  (A re-detection that fails is
\* C22's case.)
C21_CaptchaFlow ==
    \A s \in Slots : \A in \in ProcessInputs :
        (/\ page[s]
         /\ in.goto_ok
         /\ in.state \in {PROXY_BLOCK_429, CAPTCHA, CONTINUE_BUTTON}) =>
            LET r == process_item(page[s], in) IN
            /\ ~in.solved => r = Outcome("error", "captcha_failed", TRUE)
            /\ (in.solved /\ in.new_state = CARD_FOUND /\ in.parse_ok) =>
                  (~r.raised /\ r.status = "success" /\ ~r.rotate_proxy)
            /\ (in.solved /\ in.new_state = REMOVED) =>
                  r = Outcome("unavailable", "None", FALSE)
            /\ (in.solved /\ in.new_state \notin {CARD_FOUND, REMOVED, "DetectionError"}) =>
                  r = Outcome("error", "unexpected_after_captcha_" \o in.new_state, FALSE)

\* a slot holds the outcome of a captcha that was solved and followed by a
\* removed page
C21_Witness ==
    \E s \in Slots : \E in \in ProcessInputs :
        /\ page[s]
        /\ pc[s] = "save_result"
        /\ in.goto_ok /\ in.state = CAPTCHA /\ in.solved /\ in.new_state = REMOVED
        /\ result[s].status = process_item(page[s], in).status
        /\ result[s].rotate_proxy = process_item(page[s], in).rotate_proxy

\* C22: a failing detector.  Whenever detect_page_state fails during a
\* task, on the first detection or on the re-detection after a solved
\* captcha, the outcome is error with rotate_proxy and failure_reason
\* detection_error.
C22_DetectionErrorRotates ==
    \A s \in Slots : \A in \in ProcessInputs :
        (/\ page[s]
         /\ in.goto_ok
         /\ \/ in.state = "DetectionError"
            \/ /\ in.state \in {PROXY_BLOCK_429, CAPTCHA, CONTINUE_BUTTON}
               /\ in.solved
               /\ in.new_state = "DetectionError") =>
            process_item(page[s], in) = Outcome("error", "detection_error", TRUE)

\* C23: outcome dispatch.  Each lease a slot processes ends in exactly one
\* of two ways before the slot's next acquire_task: tasks_processed is
\* counted, from the success branch with a success or unavailable outcome
\* in hand, or tasks_failed is counted, from the release branch with no
\* such outcome in hand.  So, while no slot has crashed and no statement of
\* a slot has failed, the outcomes counted and the leases in progress add
\* up to the leases taken.
C23_OneDispatchPerLease ==
    /\ [](faults.worker = 0 =>
            SumStats(Slots) + Cardinality({s \in Slots : MidLease(s)}) = LeasesSoFar)
    /\ [][\A s \in Slots :
            /\ workers'[s].tasks_processed # workers[s].tasks_processed =>
                  /\ workers'[s].tasks_processed = workers[s].tasks_processed + 1
                  /\ workers'[s].tasks_failed = workers[s].tasks_failed
                  /\ pc[s] = "stats_success"
                  /\ result[s].status \in {"success", "unavailable"}
            /\ workers'[s].tasks_failed # workers[s].tasks_failed =>
                  /\ workers'[s].tasks_failed = workers[s].tasks_failed + 1
                  /\ workers'[s].tasks_processed = workers[s].tasks_processed
                  /\ pc[s] = "stats_failed"
                  /\ result[s].status \notin {"success", "unavailable"}]_vars

\* a slot has ended one lease each way and is back at the head of its loop
C23_Witness ==
    \E s \in Slots :
        /\ pc[s] = "loop"
        /\ faults.worker = 0
        /\ workers[s].tasks_failed = 1
        /\ workers[s].tasks_processed = 1

\* C24: proxy rotation precedes the next task.  A slot never acquires or
\* processes a task while it holds no proxy: whenever it is at acquire_task
\* or at process_item, current_proxy names a proxy.
C24_NoTaskWithoutProxy ==
    \A s \in Slots :
        pc[s] \in {"acquire_task", "acquire_task_update", "process_item"} =>
            current_proxy[s] # NULL

\* C25: the timeout ordering WORKER_TIMEOUT <= PROXY_TIMEOUT <= TASK_TIMEOUT
\* is enforced at startup: the janitor never runs a sweep under a
\* configuration that violates it.
C25_TimeoutOrderEnforced ==
    [][Janitor =>
          /\ config.WORKER_TIMEOUT <= config.PROXY_TIMEOUT
          /\ config.PROXY_TIMEOUT <= config.TASK_TIMEOUT]_vars

\* C26: graceful shutdown.  At the moment a slot exits, by shutdown or by
\* drain, no task is left in processing under its worker_id and no proxy
\* remains locked by it.
C26_ExitLeavesNothing ==
    \A s \in Slots :
        pc[s] = "done" =>
            /\ \A t \in Tasks :
                 ~(tasks[t].status = "processing" /\ tasks[t].worker_id = s)
            /\ \A p \in Proxies :
                 ~(proxies[p].status = "locked" /\ proxies[p].locked_by = s)

\* C27: the janitor's stuck-task reclaim changes only status, worker_id and
\* last_attempt_at, and only of processing tasks whose lease is older than
\* TASK_TIMEOUT: those become pending with no worker_id; attempts and every
\* other column of every task stay, and pending, completed, failed and
\* freshly leased tasks are left as they are.
C27_ReclaimFrame ==
    [][ReleaseStuckTasks =>
          \A t \in Tasks :
              /\ tasks'[t].attempts = tasks[t].attempts
              /\ tasks'[t].max_attempts = tasks[t].max_attempts
              /\ tasks'[t].created_at = tasks[t].created_at
              /\ tasks'[t].completed_at = tasks[t].completed_at
              /\ IF tasks'[t] # tasks[t]
                 THEN /\ tasks[t].status = "processing"
                      /\ tasks[t].last_attempt_at > config.TASK_TIMEOUT
                      /\ tasks'[t].status = "pending"
                      /\ tasks'[t].worker_id = NULL
                 ELSE TRUE
          /\ UNCHANGED <<proxies, workers, results>>]_vars

\* the janitor has just reclaimed a task whose attempt stays counted
C27_Witness ==
    /\ jpc = "release_stuck_proxies"
    /\ tasks_released > 0
    /\ \E t \in Tasks :
         /\ tasks[t].status = "pending"
         /\ tasks[t].worker_id = NULL
         /\ tasks[t].attempts > 0

\* C28: for every proxy, uses_count and blocks_count never decrease across
\* acquire_proxy, release_proxy, mark_proxy_blocked and the janitor's
\* statements; uses_count grows by one, and only in the lease that locks
\* the proxy for a slot; blocks_count grows by one, and only in the
\* mark_proxy_blocked of the slot that holds it.
C28_CountersMonotone ==
    [][\A p \in Proxies :
          /\ proxies'[p].uses_count \in {proxies[p].uses_count, proxies[p].uses_count + 1}
          /\ proxies'[p].blocks_count \in {proxies[p].blocks_count, proxies[p].blocks_count + 1}
          /\ proxies'[p].uses_count # proxies[p].uses_count =>
                \E s \in Slots :
                    /\ pc[s] \in ProxyUpdatePcs
                    /\ sel[s] = p
                    /\ proxies'[p].status = "locked"
                    /\ proxies'[p].locked_by = s
                    /\ proxies'[p].blocks_count = proxies[p].blocks_count
          /\ proxies'[p].blocks_count # proxies[p].blocks_count =>
                \E s \in Slots :
                    /\ pc[s] = "mark_proxy_blocked"
                    /\ current_proxy[s] = p
                    /\ proxies'[p].status = "blocked"
                    /\ proxies'[p].uses_count = proxies[p].uses_count]_vars

\* right after a sweep of release_stuck_proxies, a proxy leased twice and
\* marked blocked once is available again, and the other proxy has been
\* leased too
C28_Witness ==
    \E p \in Proxies :
        /\ proxies[p].uses_count >= 2
        /\ proxies[p].blocks_count >= 1
        /\ proxies[p].status = "available"
        /\ jpc = "mark_dead_workers"
        /\ \E q \in Proxies : q # p /\ proxies[q].uses_count >= 1

\* C29: a slot reaches acquire_proxy or acquire_task only after a heartbeat
\* has succeeded: whenever it is at either, its row in workers exists.
C29_RegisteredBeforeLease ==
    \A s \in Slots :
        pc[s] \in {"init_proxy_select", "init_proxy_update",
                   "acquire_task", "acquire_task_update"} =>
            workers[s].present

\* C30: a heartbeat of the loop whose retries are spent never ends the
\* slot: the slot goes on to acquire_task with its proxy, its driver and
\* the tables as they were, and its heartbeat clock restarts, so the next
\* beat is due one HEARTBEAT_INTERVAL later.
C30_FailedBeatGoesOn ==
    [][\A s \in Slots :
          (/\ pc[s] = "loop"
           /\ ~shutdown_event
           /\ HeartbeatDue(s)
           /\ pc'[s] \notin {"loop", "dead"}
           /\ faults'.worker = faults.worker + 1) =>
              /\ pc'[s] = "acquire_task"
              /\ last_heartbeat'[s] = 0
              /\ current_proxy'[s] = current_proxy[s]
              /\ page'[s] = page[s]
              /\ UNCHANGED dbvars]_vars

\* a registered slot is at acquire_task right after a beat that did not
\* reach its row
C30_Witness ==
    \E s \in Slots :
        /\ pc[s] = "acquire_task"
        /\ faults.worker = 1
        /\ last_heartbeat[s] = 0
        /\ workers[s].present
        /\ workers[s].last_heartbeat > HEARTBEAT_INTERVAL
        /\ current_proxy[s] # NULL

\* C31: drain to empty.  A slot whose acquire_task finds no row leaves its
\* loop for its cleanup with the tables as they were; the cleanup tears
\* down the driver, releases the proxy the slot holds and ends the slot;
\* an ended slot never leases again, whatever returns to pending later.
C31_DrainToEmpty ==
    [][\A s \in Slots :
          /\ (/\ AtAcquireTask(s)
              /\ acquire_task_select(tasks, LockedTasks) = {}
              /\ pc'[s] \notin {pc[s], "dead"}) =>
                 /\ pc'[s] = "finally"
                 /\ UNCHANGED dbvars
          /\ (pc[s] = "finally" /\ pc'[s] \notin {"finally", "dead"}) =>
                 /\ pc'[s] = "done"
                 /\ page'[s] = FALSE
                 /\ current_proxy'[s] = NULL
                 /\ UNCHANGED <<tasks, workers, results>>
                 /\ (current_proxy[s] # NULL /\ faults' = faults) =>
                        /\ proxies'[current_proxy[s]].status = "available"
                        /\ proxies'[current_proxy[s]].locked_by = NULL
          /\ pc[s] = "done" =>
                 /\ pc'[s] = "done"
                 /\ sel'[s] = NULL
                 /\ task'[s] = task[s]
                 /\ \A t \in Tasks : tasks'[t].worker_id = s => tasks[t].worker_id = s]_vars

\* a slot has drained and ended with nothing held, and a task another slot
\* was processing is pending again
C31_Witness ==
    \E s \in Slots :
        /\ pc[s] = "done"
        /\ faults.worker = 0
        /\ workers[s].present
        /\ workers[s].tasks_processed + workers[s].tasks_failed = 0
        /\ \A p \in Proxies : proxies[p].locked_by # s
        /\ \E t \in Tasks : tasks[t].status = "pending" /\ tasks[t].attempts > 0

\* C32: the janitor's last statement moves exactly the pending tasks with
\* attempts >= max_attempts to failed and changes nothing else: of those
\* rows only status, no other row, no other table.  A row a lease statement
\* holds row-locked is not pending by the time the statement reaches it.
\* So a sweep ends with no task pending with attempts >= max_attempts,
\* except under a lease in flight.
C32_FailImpossible ==
    [][(FailImpossibleTasks /\ faults' = faults) =>
          /\ \A t \in Tasks :
               IF /\ tasks[t].status = "pending"
                  /\ tasks[t].attempts >= tasks[t].max_attempts
                  /\ ~TaskRowLocked(t)
               THEN tasks'[t] = [tasks[t] EXCEPT !.status = "failed"]
               ELSE tasks'[t] = tasks[t]
          /\ UNCHANGED <<proxies, workers, results>>
          /\ \A t \in Tasks :
               (tasks'[t].status = "pending" /\ tasks'[t].attempts >= tasks'[t].max_attempts)
                   => TaskRowLocked(t)]_vars

\* the sweep that has just ended failed a task its holder has not released:
\* the lease was reclaimed with the holder still in the browser, and no
\* other slot has ended a lease
C32_Witness ==
    /\ jpc = "sleep"
    /\ jtimer = 0
    /\ faults.worker + faults.janitor = 0
    /\ \E s \in Slots :
         /\ pc[s] = "process_item"
         /\ tasks[task[s].task_id].status = "failed"
         /\ tasks[task[s].task_id].attempts >= tasks[task[s].task_id].max_attempts
         /\ \A u \in Slots \ {s} :
              workers[u].tasks_processed + workers[u].tasks_failed = 0

\* C33: dead-worker detection.  Under timeouts that respect
\* WORKER_TIMEOUT <= PROXY_TIMEOUT <= TASK_TIMEOUT, at the moment the
\* janitor marks a worker stopped what that worker held has already been
\* reclaimed: no task is in processing and no proxy is locked under its
\* worker_id.
C33_StoppedAfterReclaim ==
    [][\A w \in Slots :
          (/\ config.WORKER_TIMEOUT <= config.PROXY_TIMEOUT
           /\ config.PROXY_TIMEOUT <= config.TASK_TIMEOUT
           /\ workers[w].status = "active"
           /\ workers'[w].status = "stopped") =>
              /\ \A t \in Tasks :
                   ~(tasks[t].status = "processing" /\ tasks[t].worker_id = w)
              /\ \A p \in Proxies :
                   ~(proxies[p].status = "locked" /\ proxies[p].locked_by = w)]_vars

\* C34: bounded retry.  Under connection failure a Store operation makes at
\* most DB_RETRY_ATTEMPTS attempts to obtain a connection and then gives
\* up: the connection attempts of one operation never exceed
\* DB_RETRY_ATTEMPTS.
C34_BoundedRetry == store_call.connects <= DB_RETRY_ATTEMPTS

\* C35: a navigation that times out or fails makes process_item raise; the
\* slot neither hangs nor exits: from process_item it goes to one of the
\* three branches of the loop, with an exception to the release branch and
\* nothing changed; there the task is released once, tasks_failed is
\* counted, and the slot is back at the head of its loop with the proxy and
\* the driver it had.
C35_NavigationFailureReleases ==
    /\ [](\A in \in ProcessInputs : ~in.goto_ok => process_item(TRUE, in) = Raised)
    /\ [][\A s \in Slots :
            /\ (pc[s] = "process_item" /\ pc'[s] # pc[s]) =>
                  /\ pc'[s] \in {"increment_task_attempts", "mark_proxy_blocked", "save_result"}
                  /\ result'[s] = NoResult => pc'[s] = "increment_task_attempts"
                  /\ UNCHANGED <<dbvars, current_proxy, page, task>>
            /\ (pc[s] = "increment_task_attempts" /\ pc'[s] # pc[s]) =>
                  /\ pc'[s] = "stats_failed"
                  /\ tasks'[task[s].task_id].status \in {"pending", "failed"}
                  /\ tasks'[task[s].task_id].worker_id = NULL
                  /\ tasks'[task[s].task_id].attempts = tasks[task[s].task_id].attempts
                  /\ UNCHANGED <<current_proxy, page, workers>>
            /\ (pc[s] = "stats_failed" /\ pc'[s] # pc[s]) =>
                  /\ pc'[s] = "loop"
                  /\ workers'[s].tasks_failed = workers[s].tasks_failed + 1
                  /\ UNCHANGED <<tasks, current_proxy, page>>]_vars

\* process_item has raised on a live page, as it does when the navigation
\* fails, and the task has been released
C35_Witness ==
    \E s \in Slots :
        /\ pc[s] = "stats_failed"
        /\ result[s] = NoResult
        /\ page[s]
        /\ current_proxy[s] # NULL
        /\ \E in \in ProcessInputs : ~in.goto_ok /\ process_item(page[s], in).raised
        /\ tasks[task[s].task_id].status = "pending"
        /\ tasks[task[s].task_id].worker_id = NULL
        /\ workers[s].tasks_failed = 0

\* C36: fencing of stale lease holders.  mark_task_completed and the
\* release statement issued by a slot whose lease has been reclaimed do
\* not change the task: only the worker recorded in worker_id completes or
\* releases a processing task.
C36_StaleHolderFenced ==
    [][\A s \in Slots :
          (/\ pc[s] \in {"mark_task_completed", "increment_task_attempts"}
           /\ pc'[s] \notin {pc[s], "dead"}
           /\ ~(/\ tasks[task[s].task_id].status = "processing"
                /\ tasks[task[s].task_id].worker_id = s)) =>
              tasks'[task[s].task_id] = tasks[task[s].task_id]]_vars

\* C37: completed is terminal.  Once a task is completed no step of a slot
\* or of the janitor, a late release by a slot whose lease was reclaimed
\* included, changes its status or its attempts.
C37_CompletedTerminal ==
    [][\A t \in Tasks :
          tasks[t].status = "completed" =>
              /\ tasks'[t].status = "completed"
              /\ tasks'[t].attempts = tasks[t].attempts]_vars

\* C38: a proxy is never in use by two running slots at once: while a
\* running slot holds a proxy as its current proxy, no other running slot
\* holds it too, however long the first has held it and whatever the
\* janitor and the other slots' releases do.
C38_ProxyNotShared ==
    \A s, u \in Slots :
        (/\ s # u
         /\ Running(s)
         /\ Running(u)
         /\ current_proxy[s] # NULL) =>
            current_proxy[u] # current_proxy[s]

\* C39: every outcome process_item returns with rotate_proxy has status
\* error, and an outcome with status success or unavailable never has
\* rotate_proxy; so a slot marks its proxy blocked, and rotates it, only
\* with an error outcome in hand.
C39_RotateOnlyOnError ==
    /\ [](\A has_page \in BOOLEAN : \A in \in ProcessInputs :
            LET r == process_item(has_page, in)
            IN  /\ r.rotate_proxy => r.status = "error"
                /\ r.status \in {"success", "unavailable"} => ~r.rotate_proxy)
    /\ [](\A s \in Slots :
            pc[s] \in {"mark_proxy_blocked", "release_proxy", "rotate_proxy_select",
                       "rotate_proxy_update"} =>
                result[s].status = "error" /\ result[s].rotate_proxy)
    /\ [][\A p \in Proxies :
            proxies'[p].blocks_count # proxies[p].blocks_count =>
                \E s \in Slots :
                    /\ pc[s] = "mark_proxy_blocked"
                    /\ current_proxy[s] = p
                    /\ result[s].status = "error"]_vars

\* a slot has marked its proxy blocked with the outcome of a blocked page
\* in hand
C39_Witness ==
    \E s \in Slots : \E in \in ProcessInputs :
        /\ page[s]
        /\ pc[s] = "release_proxy"
        /\ in.goto_ok /\ in.state = PROXY_BLOCK_403
        /\ process_item(page[s], in).rotate_proxy
        /\ result[s].status = process_item(page[s], in).status
        /\ result[s].rotate_proxy = process_item(page[s], in).rotate_proxy
        /\ proxies[current_proxy[s]].status = "blocked"
        /\ proxies[current_proxy[s]].blocks_count = 1

\* C40: a task's attempts counts its leases.  A task that was never leased
\* has attempts 0 and is pending as loaded; the commit of acquire_task adds
\* exactly one to the attempts of the row it leases and hands that number to
\* the slot; no other statement of a slot or of the janitor changes the
\* attempts of any task.
C40_AttemptsCountLeases ==
    /\ [](\A t \in Tasks :
            tasks[t].attempts = 0 =>
                /\ tasks[t].status = "pending"
                /\ tasks[t].worker_id = NULL
                /\ tasks[t].last_attempt_at = NoTime)
    /\ [][\A t \in Tasks :
            /\ tasks'[t].attempts # tasks[t].attempts =>
                  /\ tasks'[t].attempts = tasks[t].attempts + 1
                  /\ \E s \in Slots :
                       /\ pc[s] = "acquire_task_update"
                       /\ sel[s] = t
                       /\ pc'[s] = "process_item"
                       /\ tasks'[t].status = "processing"
                       /\ tasks'[t].worker_id = s
                       /\ task'[s] = [task_id |-> t, attempts |-> tasks'[t].attempts]
            /\ (\E s \in Slots :
                  pc[s] = "acquire_task_update" /\ sel[s] = t /\ pc'[s] = "process_item") =>
                  tasks'[t].attempts = tasks[t].attempts + 1]_vars

\* a task is under its second lease, counted twice in the row and in the
\* slot's task dict, after time has passed
C40_Witness ==
    \E s \in Slots :
        /\ pc[s] = "process_item"
        /\ task[s].attempts = 2
        /\ tasks[task[s].task_id].attempts = 2
        /\ tasks[task[s].task_id].status = "processing"
        /\ tasks[task[s].task_id].worker_id = s
        /\ jtimer > 0

====
